---- MODULE Spec2Model ----
(***************************************************************************)
(* Feature preparation of the momentum transformer, mom_trans/data_prep.py *)
(*                                                                         *)
(*   read_changepoint_results_and_fill_na   one asset's change-point CSV   *)
(*   prepare_cpd_features                   all assets of a folder         *)
(*   include_changepoint_features           merge onto the feature table   *)
(*   deep_momentum_strategy_features        per-asset feature frame        *)
(*                                                                         *)
(* A data frame is a sequence of rows, a row a record of cells.  A cell is *)
(* a sequence: <<>> is the missing value (NaN), <<v>> the value v.         *)
(***************************************************************************)
EXTENDS Integers, Sequences, FiniteSets, TLC

VARIABLES
    \* read_changepoint_results_and_fill_na
    rpc,        \* "call" | "done"
    rfile,      \* the CSV's rows as written by the detector
    rL,         \* lookback_window_length
    rout,       \* the returned frame
    \* include_changepoint_features
    apc,        \* "idle" | "merge" | "raised"
    folder,     \* the change-point folder: file name -> file
    features,   \* the feature table
    arg,        \* the feature table the running call was given
    cpd,        \* prepare_cpd_features' table of the running call
    curL,       \* lookback_window_length of the running call
    applied,    \* the windows of the calls that returned, in order
    ncalls,     \* calls started
    err,        \* "" | "read" | "concat" | "ambiguous": what the call raised
    \* deep_momentum_strategy_features
    fpc,        \* the statement the call is at
    input,      \* df_asset as given: rows of timestamp and mid
    nlevels,    \* levels of df_asset's index
    history,    \* rows the return primitives can reach before the frame
    frame,      \* df_asset as the call goes on
    means,      \* ewm.mean()
    stds        \* ewm.std()
readerVars == <<rpc, rfile, rL, rout>>
featVars == <<fpc, input, nlevels, history, frame, means, stds>>
alignVars == <<apc, folder, features, arg, cpd, curL, applied, ncalls, err>>
vars == <<readerVars, alignVars, featVars>>

NaN == <<>>
Val(v) == <<v>>
IsNa(c) == c = NaN

\* ---------------------------------------------------------------- bounds
MaxRows == 4          \* rows of one change-point CSV (reader)
MaxCpdRows == 2       \* rows of one change-point CSV (alignment)
MaxCalls == 2         \* successive calls of include_changepoint_features
MaxRun == 28          \* longest run of unchanged prices opening a series
MaxTail == 2          \* ticks after the opening run
MaxLevels == 3        \* levels of the price frame's index

\* ------------------------------------------------------------- constants
\* settings/default.py: the lookback windows the detector is run with
CPD_LBWS == <<10, 21, 63, 126, 256>>
LbwSet == {CPD_LBWS[1], CPD_LBWS[2]}
\* mom_trans/data_prep.py
VOL_THRESHOLD == 5
HALFLIFE_WINSORISE == 252
SEC_PER_DAY == 23400

\* =================================================================== CSV
\* The columns of a change-point CSV besides its date index.
CpdColumns == {"t", "cp_location", "cp_location_norm", "cp_score"}

\* A quotient kept exact: <<numerator, denominator>>.
Quot(n, d) == <<n, d>>

\* What the detector writes for the row at time index t: either a detection
\* (location `back` rows before t, a score, and the norm location it computed
\* itself), or NA in the three detection columns.  t is always written.
Detections == {[ok |-> FALSE, back |-> 0, score |-> 0]}
              \cup [ok : {TRUE}, back : {0, 1}, score : {3, 7}]

CsvRow(line, date, det, L) ==
    [line |-> line, date |-> date, t |-> Val(line),
     cp_location |-> IF det.ok THEN Val(line - det.back) ELSE NaN,
     cp_location_norm |-> IF det.ok THEN Val(Quot(det.back, L)) ELSE NaN,
     cp_score |-> IF det.ok THEN Val(det.score) ELSE NaN]

\* Files of n rows at consecutive dates 1..n, for detector window L.
CsvFiles(n, L) ==
    {[i \in 1..n |-> CsvRow(i, i, dets[i], L)] : dets \in [1..n -> Detections]}

\* ---------------------------------------------------------------- ffill
\* DataFrame.ffill: per column, a missing cell takes the last value above it.
RECURSIVE LastValue(_, _, _)
LastValue(rows, i, col) ==
    IF i = 0 THEN NaN
    ELSE IF ~IsNa(rows[i][col]) THEN rows[i][col]
    ELSE LastValue(rows, i - 1, col)

Ffill(rows) ==
    [i \in 1..Len(rows) |->
        [c \in DOMAIN rows[i] |->
            IF c \in CpdColumns THEN LastValue(rows, i, c) ELSE rows[i][c]]]

\* --------------------------------------------------------------- dropna
\* DataFrame.dropna: keeps the rows with no missing cell, in order.
HasNa(row, cols) == \E c \in cols : IsNa(row[c])

RECURSIVE KeepRows(_, _, _)
KeepRows(rows, i, cols) ==
    IF i > Len(rows) THEN <<>>
    ELSE IF HasNa(rows[i], cols) THEN KeepRows(rows, i + 1, cols)
    ELSE <<rows[i]>> \o KeepRows(rows, i + 1, cols)

DropNaCpd(rows) == KeepRows(rows, 1, CpdColumns)

\* --------------------------------------------------------------- assign
\* cp_location_norm = (row["t"] - row["cp_location"]) / lookback_window_length
NormStale(row, L) == row.cp_location_norm
NormLocation(row, L) == Val(Quot(row.t[1] - row.cp_location[1], L))

AssignNorm(rows, L) ==
    [i \in 1..Len(rows) |->
        [rows[i] EXCEPT !.cp_location_norm = NormLocation(rows[i], L)]]

read_changepoint_results_and_fill_na(file, L) ==
    AssignNorm(DropNaCpd(Ffill(file)), L)

\* ============================================================ the reader
ReaderIdle ==
    /\ rpc = "done" /\ rfile = <<>> /\ rL = CPD_LBWS[1] /\ rout = <<>>

FeatIdle ==
    /\ fpc = "done" /\ input = <<>> /\ nlevels = 1 /\ history = 0
    /\ frame = <<>> /\ means = <<>> /\ stds = <<>>

AlignIdle ==
    /\ apc = "raised" /\ folder = <<>> /\ features = <<>> /\ arg = <<>>
    /\ cpd = <<>> /\ curL = 0 /\ applied = <<>> /\ ncalls = 0 /\ err = ""

InitReader ==
    /\ rpc = "call"
    /\ rL \in LbwSet
    /\ \E n \in 0..MaxRows : rfile \in CsvFiles(n, rL)
    /\ rout = <<>>
    /\ AlignIdle
    /\ FeatIdle

ReadChangepoint ==
    /\ rpc = "call"
    /\ rout' = read_changepoint_results_and_fill_na(rfile, rL)
    /\ rpc' = "done"
    /\ UNCHANGED <<rfile, rL>>
    /\ UNCHANGED <<alignVars, featVars>>

NextReader == ReadChangepoint

SpecReader == InitReader /\ [][NextReader]_vars

\* ---------------------------------------------------------------- C2
Valid(row) == ~IsNa(row.cp_location) /\ ~IsNa(row.cp_score)
Missing(row) == IsNa(row.cp_location) /\ IsNa(row.cp_score)

\* The file has a valid row above line i.
HasEarlierValid(file, i) == \E j \in 1..(i - 1) : Valid(file[j])
\* The nearest valid row above line i.
EarlierValid(file, i) ==
    CHOOSE j \in 1..(i - 1) :
        Valid(file[j]) /\ \A k \in (j + 1)..(i - 1) : ~Valid(file[k])

OutRowsOfLine(rows, line) == {k \in 1..Len(rows) : rows[k].line = line}

\* C2: a row whose detection is missing and that has an earlier valid row is
\* returned with the location and score of the nearest earlier valid row and
\* with cp_location_norm = (its own t - that location) / L.
C2_FillThenRecompute ==
    rpc = "done" =>
        \A i \in 1..Len(rfile) :
            (Missing(rfile[i]) /\ HasEarlierValid(rfile, i)) =>
                LET j == EarlierValid(rfile, i) IN
                /\ Cardinality(OutRowsOfLine(rout, i)) = 1
                /\ \A k \in OutRowsOfLine(rout, i) :
                    /\ rout[k].cp_location = rfile[j].cp_location
                    /\ rout[k].cp_score = rfile[j].cp_score
                    /\ rout[k].cp_location_norm =
                         Val(Quot(rfile[i].t[1] - rfile[j].cp_location[1], rL))

\* Lines 1..3 hold detections, line 4 is missing and has been filled.
C2_Witness ==
    /\ rpc = "done"
    /\ Len(rfile) = 4
    /\ \A i \in 1..3 : Valid(rfile[i])
    /\ Missing(rfile[4])
    /\ Len(rout) = 4
    /\ rout[4].cp_location = rfile[3].cp_location
    /\ rout[4].cp_location_norm # rfile[3].cp_location_norm

\* ================================================================ folder
\* The per-asset files a change-point folder may hold.
FileNames == {"A.csv", "A.txt", "B.csv"}

\* os.path.splitext(f): <<root, extension>>.
Splitext(f) ==
    CASE f = "A.csv" -> <<"A", ".csv">>
      [] f = "A.txt" -> <<"A", ".txt">>
      [] f = "B.csv" -> <<"B", ".csv">>

\* A file of the folder: whether pd.read_csv can read it, what the detector
\* found per row, and whether its second row repeats the first row's date.
Unreadable == [readable |-> FALSE, dets |-> <<>>, rep |-> FALSE]
AlignDetections == {d \in Detections : ~d.ok \/ (d.back = 0 /\ d.score = 3)}
FullFile == [readable |-> TRUE, rep |-> FALSE,
             dets |-> [i \in 1..2 |-> [ok |-> TRUE, back |-> 0, score |-> 3]]]
AnyFiles ==
    {Unreadable}
    \cup {f \in [readable : {TRUE}, rep : BOOLEAN,
                 dets : UNION {[1..n -> AlignDetections] : n \in 0..MaxCpdRows}] :
            f.rep => Len(f.dets) >= 2}

FileDate(file, line) == IF file.rep /\ line > 1 THEN line - 1 ELSE line

\* pd.read_csv(file_path, index_col=0, parse_dates=True) of a readable file.
ReadCsv(file, L) ==
    [i \in 1..Len(file.dets) |-> CsvRow(i, FileDate(file, i), file.dets[i], L)]

\* .assign(ticker=os.path.splitext(f)[0])
AssignTicker(rows, f) ==
    [i \in 1..Len(rows) |->
        [c \in DOMAIN rows[i] \cup {"ticker"} |->
            IF c = "ticker" THEN Splitext(f)[1] ELSE rows[i][c]]]

\* os.listdir(folder_path): the folder's names in an order of the system's.
ListDirs(dir) ==
    {order \in [1..Cardinality(DOMAIN dir) -> DOMAIN dir] :
        \A i, j \in DOMAIN order : i # j => order[i] # order[j]}

\* pd.concat of the per-file frames, in listing order.
RECURSIVE ConcatFrames(_, _, _, _)
ConcatFrames(dir, order, i, L) ==
    IF i > Len(order) THEN <<>>
    ELSE AssignTicker(
             read_changepoint_results_and_fill_na(ReadCsv(dir[order[i]], L), L),
             order[i])
         \o ConcatFrames(dir, order, i + 1, L)

\* prepare_cpd_features raises what pd.read_csv raises, and pd.concat raises
\* on an empty list of frames.
ReadFails(dir) == \E f \in DOMAIN dir : ~dir[f].readable
NothingToConcat(dir) == DOMAIN dir = {}

prepare_cpd_features(dir, order, L) == ConcatFrames(dir, order, 1, L)

\* ================================================================= merge
AlignDates == 1..2
Tickers == {"A", "B"}

\* A feature table: its index name and its rows.  A row carries its key, the
\* number of the assembled row it stems from, and one <<cp_rl, cp_score>> per
\* window already merged.
FeatureRows(ts) ==
    LET keys == {<<tk, d>> : tk \in ts, d \in AlignDates}
        RECURSIVE Build(_, _)
        Build(rest, n) ==
            IF rest = {} THEN <<>>
            ELSE LET k == CHOOSE x \in rest :
                              \A y \in rest : x[1] # y[1] \/ x[2] <= y[2]
                 IN <<[fid |-> n, date |-> k[2], ticker |-> k[1],
                       cp |-> <<>>]>> \o Build(rest \ {k}, n + 1)
    IN Build(keys, 1)

\* The rows of the right table that match a left row on ["date", "ticker"].
RECURSIVE Matches(_, _, _)
Matches(row, right, i) ==
    IF i > Len(right) THEN <<>>
    ELSE IF right[i].date = row.date /\ right[i].ticker = row.ticker
         THEN <<right[i]>> \o Matches(row, right, i + 1)
         ELSE Matches(row, right, i + 1)

WithWindow(row, L, cell) ==
    [row EXCEPT !.cp = [l \in DOMAIN row.cp \cup {L} |->
                            IF l = L THEN cell ELSE row.cp[l]]]

\* One left row joined: a copy per matching right row, with the renamed
\* columns cp_rl_<L> and cp_score_<L>.
JoinRowLeft(row, right, L) ==
    LET m == Matches(row, right, 1) IN
    IF m = <<>> THEN <<WithWindow(row, L, <<NaN, NaN>>)>>
    ELSE [k \in 1..Len(m) |->
            WithWindow(row, L, <<m[k].cp_location_norm, m[k].cp_score>>)]
JoinRow(row, right, L) ==
    LET m == Matches(row, right, 1) IN
    [k \in 1..Len(m) |->
        WithWindow(row, L, <<m[k].cp_location_norm, m[k].cp_score>>)]

\* DataFrame.merge(right, on=["date", "ticker"]): how="inner" by default.
RECURSIVE Merge(_, _, _, _)
Merge(left, right, L, i) ==
    IF i > Len(left) THEN <<>>
    ELSE JoinRow(left[i], right, L) \o Merge(left, right, L, i + 1)

\* merge refuses a key that names both an index level and a column; the
\* feature table always has a column "date".
Ambiguous(table) == table.idxName = "date"

\* ========================================================= the alignment
InitAlign ==
    /\ ReaderIdle
    /\ FeatIdle
    /\ apc = "idle"
    /\ \E names \in SUBSET FileNames :
         folder \in {d \in [names -> AnyFiles] :
                       \A f \in names : f # "A.csv" =>
                           d[f] \in {Unreadable, FullFile}}
    /\ \E ts \in SUBSET Tickers, nm \in {"Date", "date"} :
         features = [idxName |-> nm, rows |-> FeatureRows(ts)]
    /\ arg = <<>> /\ cpd = <<>> /\ curL = 0
    /\ applied = <<>> /\ ncalls = 0 /\ err = ""

\* include_changepoint_features, up to the evaluation of merge's argument.
PrepareCpdFeatures(L) ==
    /\ apc = "idle"
    /\ ncalls < MaxCalls
    /\ ncalls' = ncalls + 1
    /\ curL' = L
    /\ arg' = features
    /\ IF ReadFails(folder) \/ NothingToConcat(folder)
       THEN /\ apc' = "raised" /\ cpd' = <<>>
            /\ err' = IF ReadFails(folder) THEN "read" ELSE "concat"
       ELSE /\ apc' = "merge" /\ err' = ""
            /\ \E order \in ListDirs(folder) :
                 cpd' = prepare_cpd_features(folder, order, L)
    /\ UNCHANGED <<folder, features, applied>>
    /\ UNCHANGED <<readerVars, featVars>>

\* include_changepoint_features, the merge and the index assignment.
MergeFeatures ==
    /\ apc = "merge"
    /\ IF Ambiguous(arg)
       THEN /\ apc' = "raised" /\ err' = "ambiguous"
            /\ UNCHANGED <<features, applied>>
       ELSE /\ apc' = "idle"
            /\ features' = [idxName |-> "date",
                            rows |-> Merge(arg.rows, cpd, curL, 1)]
            /\ applied' = Append(applied, curL)
            /\ UNCHANGED err
    /\ UNCHANGED <<folder, arg, cpd, curL, ncalls>>
    /\ UNCHANGED <<readerVars, featVars>>

NextAlign ==
    \/ \E L \in LbwSet : PrepareCpdFeatures(L)
    \/ MergeFeatures

SpecAlign == InitAlign /\ [][NextAlign]_vars

\* ---------------------------------------------------------------- C3
Returned == apc = "idle" /\ ncalls > 0
HasMatch(row, table) ==
    \E k \in 1..Len(table) :
        table[k].date = row.date /\ table[k].ticker = row.ticker
Fids(rows) == {rows[k].fid : k \in 1..Len(rows)}

\* C3: the returned table holds a feature row exactly when the change-point
\* table has a record with its (date, ticker), the row's key unchanged; a
\* call raises only for an unreadable file, an empty folder or an ambiguous
\* key, never for a feature row without a match.
C3_InnerJoin ==
    /\ Returned =>
        /\ Fids(features.rows) =
             {arg.rows[k].fid : k \in {n \in 1..Len(arg.rows) :
                                         HasMatch(arg.rows[n], cpd)}}
        /\ \A k \in 1..Len(features.rows) : \E n \in 1..Len(arg.rows) :
             /\ arg.rows[n].fid = features.rows[k].fid
             /\ arg.rows[n].date = features.rows[k].date
             /\ arg.rows[n].ticker = features.rows[k].ticker
    /\ apc = "raised" =>
         ReadFails(folder) \/ NothingToConcat(folder) \/ Ambiguous(arg)

\* Two tickers of features, change-point data for one of them: that one's
\* rows are returned, the other's are gone.
C3_Witness ==
    /\ Returned
    /\ \E k \in 1..Len(arg.rows) : ~HasMatch(arg.rows[k], cpd)
    /\ {arg.rows[k].ticker : k \in 1..Len(arg.rows)} = {"A", "B"}
    /\ {features.rows[k].ticker : k \in 1..Len(features.rows)} = {"A"}

\* ---------------------------------------------------------------- C4
\* C4: in the returned table no two rows share a (date, ticker).
C4_KeyUnique ==
    Returned =>
        \A i, j \in 1..Len(features.rows) :
            (features.rows[i].date = features.rows[j].date
             /\ features.rows[i].ticker = features.rows[j].ticker) => i = j

\* ---------------------------------------------------------------- C7
CallOver(n) == ncalls = n /\ apc \in {"idle", "raised"}
ReadableRows(dir, L) ==
    UNION {LET rows == AssignTicker(
                   read_changepoint_results_and_fill_na(ReadCsv(dir[f], L), L),
                   f)
           IN {rows[k] : k \in DOMAIN rows}
           : f \in {g \in DOMAIN dir : dir[g].readable}}

\* C7: a call over a folder with an unreadable file of one asset still
\* returns, and returns the rows matched by the other assets' files.
C7_UnreadableSkipped ==
    LET others == ReadableRows(folder, curL)
        served(row) == \E c \in others :
                          c.date = row.date /\ c.ticker = row.ticker
    IN  ( /\ CallOver(1)
          /\ ReadFails(folder)
          /\ ~Ambiguous(arg)
          /\ \A g \in DOMAIN folder : \A r \in others :
                ~folder[g].readable => r.ticker # Splitext(g)[1]
          /\ \E n \in 1..Len(arg.rows) : served(arg.rows[n]) )
        => /\ apc = "idle"
           /\ \A n \in 1..Len(arg.rows) :
                served(arg.rows[n]) => arg.rows[n].fid \in Fids(features.rows)

\* ---------------------------------------------------------------- C8
\* C8: a second call for another window, on the table the first returned,
\* returns a table with both windows' columns, the first window's cells of
\* every surviving row as they were.
C8_SecondWindow ==
    ( /\ CallOver(2)
      /\ Len(applied) >= 1
      /\ curL # applied[1]
      /\ ~ReadFails(folder)
      /\ Len(arg.rows) > 0 )
    => /\ apc = "idle"
       /\ applied = <<applied[1], curL>>
       /\ \A k \in 1..Len(features.rows) :
            /\ DOMAIN features.rows[k].cp = {applied[1], curL}
            /\ \A n \in 1..Len(arg.rows) :
                 arg.rows[n].fid = features.rows[k].fid =>
                     features.rows[k].cp[applied[1]] = arg.rows[n].cp[applied[1]]

\* ============================================================ arithmetic
\* Prices are whole ticks of 0.01; means and deviations are kept to the tick.
\* Weights are kept to 1/WeightScale.
WeightScale == 1000
Ln2Scaled == 693

\* ewm(halflife=h): the weight of an observation falls by the factor
\* exp(-ln 2 / h) per row; to first order 1 - ln 2 / h.
Decay == WeightScale - (Ln2Scaled + HALFLIFE_WINSORISE \div 2) \div HALFLIFE_WINSORISE

RoundDiv(a, b) == (2 * a + b) \div (2 * b)

RECURSIVE SqrtIn(_, _, _)
SqrtIn(v, lo, hi) ==
    IF lo >= hi THEN lo
    ELSE LET mid == (lo + hi + 1) \div 2 IN
         IF mid * mid <= v THEN SqrtIn(v, mid, hi) ELSE SqrtIn(v, lo, mid - 1)
Sqrt(v) == SqrtIn(v, 0, 1000)

\* The weights of the rows t, t-1, ..., 1 as seen from row t: w[k] is the
\* weight of the row k-1 rows back.
RECURSIVE EwmWeights(_)
EwmWeights(n) ==
    IF n = 0 THEN <<>>
    ELSE IF n = 1 THEN <<WeightScale>>
    ELSE LET w == EwmWeights(n - 1) IN
         Append(w, (w[n - 1] * Decay) \div WeightScale)

RECURSIVE WSum(_, _, _, _)
\* sum over the rows i..t of  w[t - i + 1] * v[i]
WSum(w, t, i, v) ==
    IF i > t THEN 0 ELSE w[t - i + 1] * v[i] + WSum(w, t, i + 1, v)

\* ewm.mean() at row t (adjust=True): the weighted mean of rows 1..t.
EwmMean(x, w, t) ==
    LET one == [i \in 1..t |-> 1]
    IN Val(RoundDiv(WSum(w, t, 1, x), WSum(w, t, 1, one)))

\* ewm.std() at row t (bias=False): the debiased weighted deviation from the
\* mean; missing for a single observation.
EwmStd(x, w, t) ==
    LET one == [i \in 1..t |-> 1]
        s0 == WSum(w, t, 1, one)
        m == RoundDiv(WSum(w, t, 1, x), s0)
        dev == [i \in 1..t |-> (x[i] - m) * (x[i] - m)]
        q == WSum(w, t, 1, [i \in 1..t |-> w[t - i + 1]])
        d == s0 - q \div s0
    IN IF d <= 0 THEN NaN ELSE Val(Sqrt(WSum(w, t, 1, dev) \div d))

\* numpy arithmetic on cells: a missing operand gives a missing result.
Plus(a, b) == IF IsNa(a) \/ IsNa(b) THEN NaN ELSE Val(a[1] + b[1])
Minus(a, b) == IF IsNa(a) \/ IsNa(b) THEN NaN ELSE Val(a[1] - b[1])
Times(k, a) == IF IsNa(a) THEN NaN ELSE Val(k * a[1])
NpMinimum(a, b) ==
    IF IsNa(a) \/ IsNa(b) THEN NaN ELSE Val(IF a[1] <= b[1] THEN a[1] ELSE b[1])
NpMaximum(a, b) ==
    IF IsNa(a) \/ IsNa(b) THEN NaN ELSE Val(IF a[1] >= b[1] THEN a[1] ELSE b[1])

\* srs = np.minimum(srs, means + VOL_THRESHOLD * stds), then
\* srs = np.maximum(srs, means - VOL_THRESHOLD * stds)
WinsoriseCeilingOnly(x, m, sd) ==
    NpMinimum(x, Plus(m, Times(VOL_THRESHOLD, sd)))
Winsorise(x, m, sd) ==
    NpMaximum(NpMinimum(x, Plus(m, Times(VOL_THRESHOLD, sd))),
              Minus(m, Times(VOL_THRESHOLD, sd)))

\* ============================================================ timestamps
\* Index values: a timestamp (seconds since 1970-01-01 and nanoseconds), a
\* label, or an integer position.
Ts(sec, ns) == [k |-> "ts", sec |-> sec, ns |-> ns]
Label(l) == [k |-> "label", l |-> l]
Position(n) == [k |-> "int", n |-> n]

NanosPerSec == 1000 * 1000 * 1000
SecPerCivilDay == 24 * 3600

\* pd.to_datetime: a timestamp stays, an integer counts nanoseconds since
\* the epoch.
ToDatetime(v) ==
    CASE v.k = "ts" -> v
      [] v.k = "int" -> Ts(v.n \div NanosPerSec, v.n % NanosPerSec)

\* The civil date <<year, month, day, day of year>> of a day count since the
\* epoch, in the proleptic Gregorian calendar.
CivilDate(days) ==
    LET z == days + 719468
        era == z \div 146097
        doe == z - era * 146097
        yoe == (doe - doe \div 1460 + doe \div 36524 - doe \div 146096) \div 365
        doy == doe - (365 * yoe + yoe \div 4 - yoe \div 100)
        mp == (5 * doy + 2) \div 153
        d == doy - (153 * mp + 2) \div 5 + 1
        m == IF mp < 10 THEN mp + 3 ELSE mp - 9
        y == yoe + era * 400 + (IF m <= 2 THEN 1 ELSE 0)
        leap == (y % 4 = 0 /\ y % 100 # 0) \/ y % 400 = 0
        ord == IF m <= 2 THEN doy - 305 ELSE doy + 60 + (IF leap THEN 1 ELSE 0)
    IN <<y, m, d, ord>>

\* dayofweek: Monday is 0.
DayOfWeek(days) == (days + 3) % 7

\* isocalendar().week
IsoWeeksIn(y) ==
    LET p(n) == (n + n \div 4 - n \div 100 + n \div 400) % 7
    IN IF p(y) = 4 \/ p(y - 1) = 3 THEN 53 ELSE 52
IsoWeek(days) ==
    LET c == CivilDate(days)
        w == (c[4] - (DayOfWeek(days) + 1) + 10) \div 7
    IN IF w < 1 THEN IsoWeeksIn(c[1] - 1)
       ELSE IF w > IsoWeeksIn(c[1]) THEN 1 ELSE w

\* hour, minute, second, dayofweek, day, isocalendar().week, month, year
CalendarNames == <<"hour_of_day", "minute_of_hour", "second_of_minute",
                   "day_of_week", "day_of_month", "week_of_year",
                   "month_of_year", "year">>
Calendar(ts) ==
    LET days == ts.sec \div SecPerCivilDay
        secs == ts.sec % SecPerCivilDay
        c == CivilDate(days)
    IN <<Val(secs \div 3600), Val((secs % 3600) \div 60), Val(secs % 60),
         Val(DayOfWeek(days)), Val(c[3]), Val(IsoWeek(days)), Val(c[2]),
         Val(c[1])>>

\* =========================================================== price frame
\* The first tick: 2024-12-31 23:59:50; ticks follow one second apart.
FirstTick == 20088 * SecPerCivilDay + 23 * 3600 + 59 * 60 + 50

\* mid of a tick, in ticks of 0.01: missing, zero, the going price, a spike.
GoingPrice == Val(100)
Mids == {NaN, Val(0), GoingPrice, Val(200)}

\* A series: the going price `run` times, then the ticks of `tail`.
PriceSeries(run, tail) ==
    [i \in 1..(run + Len(tail)) |->
        [ts |-> Ts(FirstTick + i - 1, 0),
         mid |-> IF i <= run THEN GoingPrice ELSE tail[i - run]]]

Runs == {0, 3, MaxRun}
Tails == UNION {[1..n -> Mids] : n \in 0..MaxTail}

\* The index of a row: the timestamp, under a ticker level and further
\* outer levels when the index is composite.
OuterLevel(depth) == IF depth = 1 THEN Label("AAPL") ELSE Label("XNAS")
IndexOf(ts, n) == [l \in 1..n |-> IF l = n THEN ts ELSE OuterLevel(n - l)]

\* ------------------------------------------------ external primitives
\* mom_trans.classical_strategies: the value of a primitive at a row is an
\* uninterpreted term; it is missing where its operand is missing or where
\* the primitive cannot reach `offset` rows back.  `hist` is the number of
\* rows the primitive can reach before the first row of the frame: 0 is the
\* plain row shift, the larger values stand for frames long enough for the
\* longest horizon, which are beyond enumeration row by row.
Histories == {0, 59, 252 * SEC_PER_DAY - 2, 252 * SEC_PER_DAY}

calc_returns(srs, offset, i, hist) ==
    IF IsNa(srs[i]) \/ i + hist <= offset THEN NaN
    ELSE Val(<<"calc_returns", offset, i>>)

calc_second_vol(returns, i) ==
    IF IsNa(returns[i]) THEN NaN ELSE Val(<<"calc_second_vol", i>>)

calc_vol_scaled_returns(returns, vol, i) ==
    IF IsNa(returns[i]) \/ IsNa(vol[i]) THEN NaN
    ELSE Val(<<"calc_vol_scaled_returns", i>>)

calc_signal(srs, short_window, long_window, i) ==
    IF IsNa(srs[i]) THEN NaN
    ELSE Val(<<"calc_signal", short_window, long_window, i>>)

\* Series.shift(-1): the value of the next row, missing at the last row.
ShiftBack(series, i) == IF i < Len(series) THEN series[i + 1] ELSE NaN

\* ----------------------------------------------------------- the columns
Column(rows, c) == [i \in 1..Len(rows) |-> rows[i][c]]

\* df_asset[~mid.isna() | ~mid.isnull() | (mid > 1e-8)]: a comparison with a
\* missing value is false; a price of whole ticks exceeds 1e-8 when positive.
KeepTick(mid) == ~IsNa(mid) \/ ~IsNa(mid) \/ (~IsNa(mid) /\ mid[1] > 0)

RECURSIVE FilterTicks(_, _, _)
FilterTicks(rows, i, n) ==
    IF i > Len(rows) THEN <<>>
    ELSE IF KeepTick(rows[i].mid)
         THEN <<[line |-> i, idx |-> IndexOf(rows[i].ts, n),
                 mid |-> rows[i].mid, srs |-> NaN,
                 second_returns |-> NaN, second_vol |-> NaN,
                 target_returns |-> NaN, norm |-> <<>>, macd |-> <<>>,
                 level |-> <<>>, cal |-> <<>>, date |-> NaN]>>
              \o FilterTicks(rows, i + 1, n)
         ELSE FilterTicks(rows, i + 1, n)

\* calc_normalised_returns(sec_offset)
NormalisedUnitOffset(srs, vol, sec_offset, i, hist) ==
    LET r == calc_returns(srs, 1, i, hist) IN
    IF IsNa(r) \/ IsNa(vol[i]) THEN NaN
    ELSE Val([ret |-> r[1], vol |-> vol[i][1], sqrt |-> sec_offset])
calc_normalised_returns(srs, vol, sec_offset, i, hist) ==
    LET r == calc_returns(srs, sec_offset, i, hist) IN
    IF IsNa(r) \/ IsNa(vol[i]) THEN NaN
    ELSE Val([ret |-> r[1], vol |-> vol[i][1], sqrt |-> sec_offset])

\* norm_second_return ... norm_annual_return
NormNames == <<"norm_second_return", "norm_minute_return",
               "norm_hourly_return", "norm_daily_return",
               "norm_monthly_return", "norm_quarterly_return",
               "norm_biannual_return", "norm_annual_return">>
NormOffsets == <<1, 60, 3600, SEC_PER_DAY, 21 * SEC_PER_DAY, 63 * SEC_PER_DAY,
                 126 * SEC_PER_DAY, 252 * SEC_PER_DAY>>

trend_combinations ==
    << <<60, 300>>, <<300, 900>>, <<600, 1800>>, <<1800, 7200>>,
       <<3600, 14400>>, <<7200, 18000>>, <<14400, 23400>>, <<23400, 117000>>,
       <<187200, 561600>>, <<374400, 1123200>>, <<748800, 2246400>> >>

\* DataFrame.dropna(): a row stays when every column holds a value.
CellsOf(row) ==
    <<row.mid, row.srs, row.second_returns, row.second_vol,
      row.target_returns, row.date>>
    \o row.norm \o row.macd \o row.cal \o row.level
RowCompleteSrsOnly(row) == ~IsNa(row.srs)
RowComplete(row) == \A k \in DOMAIN CellsOf(row) : ~IsNa(CellsOf(row)[k])

RECURSIVE DropNa(_, _)
DropNa(rows, i) ==
    IF i > Len(rows) THEN <<>>
    ELSE IF RowComplete(rows[i]) THEN <<rows[i]>> \o DropNa(rows, i + 1)
    ELSE DropNa(rows, i + 1)

\* ======================================= deep_momentum_strategy_features
InitFeat ==
    /\ ReaderIdle
    /\ AlignIdle
    /\ fpc = "filter"
    /\ \E run \in Runs, tail \in Tails : input = PriceSeries(run, tail)
    /\ nlevels \in 1..MaxLevels
    /\ history \in Histories
    /\ frame = <<>> /\ means = <<>> /\ stds = <<>>

\* lines 74-78
FilterRows ==
    /\ fpc = "filter"
    /\ frame' = FilterTicks(input, 1, nlevels)
    /\ fpc' = "winsorise"
    /\ UNCHANGED <<input, nlevels, history, means, stds>>
    /\ UNCHANGED <<readerVars, alignVars>>

\* lines 80-86
WinsoriseRows ==
    /\ fpc = "winsorise"
    /\ LET n == Len(frame)
           x == [i \in 1..n |-> frame[i].mid[1]]
           w == EwmWeights(n)
           m == [i \in 1..n |-> EwmMean(x, w, i)]
           sd == [i \in 1..n |-> EwmStd(x, w, i)]
       IN /\ means' = m
          /\ stds' = sd
          /\ frame' = [i \in 1..n |->
                [frame[i] EXCEPT !.srs = Winsorise(frame[i].mid, m[i], sd[i])]]
    /\ fpc' = "returns"
    /\ UNCHANGED <<input, nlevels, history>>
    /\ UNCHANGED <<readerVars, alignVars>>

\* lines 88-92
ReturnsAndVol ==
    /\ fpc = "returns"
    /\ LET n == Len(frame)
           srs == Column(frame, "srs")
           ret == [i \in 1..n |-> calc_returns(srs, 1, i, history)]
           vol == [i \in 1..n |-> calc_second_vol(ret, i)]
           scaled == [i \in 1..n |-> calc_vol_scaled_returns(ret, vol, i)]
       IN frame' = [i \in 1..n |->
                [frame[i] EXCEPT !.second_returns = ret[i],
                                 !.second_vol = vol[i],
                                 !.target_returns = ShiftBack(scaled, i)]]
    /\ fpc' = "normalise"
    /\ UNCHANGED <<input, nlevels, history, means, stds>>
    /\ UNCHANGED <<readerVars, alignVars>>

\* lines 94-107
NormalisedReturns ==
    /\ fpc = "normalise"
    /\ LET srs == Column(frame, "srs")
           vol == Column(frame, "second_vol")
       IN frame' = [i \in 1..Len(frame) |->
                [frame[i] EXCEPT !.norm =
                    [k \in 1..Len(NormOffsets) |->
                        calc_normalised_returns(srs, vol, NormOffsets[k], i,
                                                history)]]]
    /\ fpc' = "trend"
    /\ UNCHANGED <<input, nlevels, history, means, stds>>
    /\ UNCHANGED <<readerVars, alignVars>>

\* lines 109-125
TrendSignals ==
    /\ fpc = "trend"
    /\ LET srs == Column(frame, "srs")
       IN frame' = [i \in 1..Len(frame) |->
                [frame[i] EXCEPT !.macd =
                    [k \in 1..Len(trend_combinations) |->
                        calc_signal(srs, trend_combinations[k][1],
                                    trend_combinations[k][2], i)]]]
    /\ fpc' = "index"
    /\ UNCHANGED <<input, nlevels, history, means, stds>>
    /\ UNCHANGED <<readerVars, alignVars>>

\* lines 128-134: a composite index loses its outer level; one that is still
\* composite is reset, its levels becoming columns (the inner one is named
\* date) and the index the row positions 0, 1, ...; then pd.to_datetime.
SingleLevelIndex ==
    /\ fpc = "index"
    /\ frame' =
         IF nlevels = 1 THEN frame
         ELSE IF nlevels = 2
         THEN [i \in 1..Len(frame) |->
                 [frame[i] EXCEPT !.idx = <<ToDatetime(frame[i].idx[2])>>]]
         ELSE [i \in 1..Len(frame) |->
                 [frame[i] EXCEPT
                     !.level = [l \in 1..(nlevels - 2) |->
                                   Val(frame[i].idx[l + 1])],
                     !.date = Val(frame[i].idx[nlevels]),
                     !.idx = <<ToDatetime(Position(i - 1))>>]]
    /\ fpc' = "calendar"
    /\ UNCHANGED <<input, nlevels, history, means, stds>>
    /\ UNCHANGED <<readerVars, alignVars>>

\* lines 136-156
DateFeatures ==
    /\ fpc = "calendar"
    /\ frame' =
         IF Len(frame) > 0
         THEN [i \in 1..Len(frame) |->
                 LET df_asset_index == ToDatetime(frame[i].idx[1]) IN
                 [frame[i] EXCEPT !.cal = Calendar(df_asset_index),
                                  !.date = Val(df_asset_index)]]
         ELSE <<>>
    /\ fpc' = "dropna"
    /\ UNCHANGED <<input, nlevels, history, means, stds>>
    /\ UNCHANGED <<readerVars, alignVars>>

\* line 158
DropIncomplete ==
    /\ fpc = "dropna"
    /\ frame' = DropNa(frame, 1)
    /\ fpc' = "done"
    /\ UNCHANGED <<input, nlevels, history, means, stds>>
    /\ UNCHANGED <<readerVars, alignVars>>

NextFeat ==
    \/ FilterRows
    \/ WinsoriseRows
    \/ ReturnsAndVol
    \/ NormalisedReturns
    \/ TrendSignals
    \/ SingleLevelIndex
    \/ DateFeatures
    \/ DropIncomplete

SpecFeat == InitFeat /\ [][NextFeat]_vars

\* ---------------------------------------------------------------- C1
\* C1: once the ticks are filtered, the frame holds no row whose mid is
\* missing or zero, so none reaches the envelope, the returns or the output.
C1_BadTicksDropped ==
    fpc # "filter" =>
        \A i \in 1..Len(frame) :
            ~IsNa(frame[i].mid) /\ frame[i].mid[1] > 0

\* ---------------------------------------------------------------- C5
\* The place of input line l in the filtered frame.
FilteredPos(l) == Cardinality({j \in 1..l : KeepTick(input[j].mid)})

\* C5: every srs returned lies within mean - 5 std .. mean + 5 std of the
\* envelope at its row, and no row without a standard deviation is returned.
C5_SrsWithinEnvelope ==
    fpc = "done" =>
        \A k \in 1..Len(frame) :
            LET p == FilteredPos(frame[k].line) IN
            /\ ~IsNa(frame[k].srs)
            /\ ~IsNa(means[p]) /\ ~IsNa(stds[p])
            /\ frame[k].srs[1] >= means[p][1] - 5 * stds[p][1]
            /\ frame[k].srs[1] <= means[p][1] + 5 * stds[p][1]

\* A spike was clipped to the envelope and returned.
C5_Witness ==
    /\ fpc = "done"
    /\ \E k \in 1..Len(frame) :
         /\ frame[k].srs[1] < frame[k].mid[1]
         /\ frame[k].srs[1] =
              means[FilteredPos(frame[k].line)][1]
              + 5 * stds[FilteredPos(frame[k].line)][1]

\* ---------------------------------------------------------------- C6
\* C6: every returned row holds a value in every column: srs, the returns,
\* the volatility, the target, eight normalised returns, eleven trend
\* signals, eight calendar fields and date.
C6_RowsComplete ==
    fpc = "done" =>
        \A k \in 1..Len(frame) :
            /\ ~IsNa(frame[k].mid) /\ ~IsNa(frame[k].srs)
            /\ ~IsNa(frame[k].second_returns) /\ ~IsNa(frame[k].second_vol)
            /\ ~IsNa(frame[k].target_returns) /\ ~IsNa(frame[k].date)
            /\ Len(frame[k].norm) = 8
            /\ \A n \in 1..8 : ~IsNa(frame[k].norm[n])
            /\ Len(frame[k].macd) = 11
            /\ \A n \in 1..11 : ~IsNa(frame[k].macd[n])
            /\ Len(frame[k].cal) = 8
            /\ \A n \in 1..8 : ~IsNa(frame[k].cal[n])

\* Rows were returned, and besides the first and the last row one more was
\* dropped: it lacked the history of the longest horizon.
C6_Witness ==
    /\ fpc = "done"
    /\ Len(frame) > 0
    /\ Len(frame) + 3 <= Len(means)
    /\ history < 252 * SEC_PER_DAY

\* ---------------------------------------------------------------- C9
NormComputedAt(horizons) ==
    \A k \in 1..Len(frame) :
        Len(frame[k].norm) > 0 =>
            /\ Len(frame[k].norm) = 8
            /\ \A n \in 1..8 :
                 ~IsNa(frame[k].norm[n]) =>
                     /\ frame[k].norm[n][1].ret =
                          <<"calc_returns", horizons[n],
                            FilteredPos(frame[k].line)>>
                     /\ frame[k].norm[n][1].vol = frame[k].second_vol[1]
                     /\ frame[k].norm[n][1].sqrt = horizons[n]

\* C9 as claimed: the horizons are 1, 60, 3600 and 1, 21, 63, 126, 252 days
\* of 86400 seconds.
C9_HorizonsCivilDay ==
    NormComputedAt(<<1, 60, 3600, 86400, 21 * 86400, 63 * 86400,
                     126 * 86400, 252 * 86400>>)

\* C9 amended: the horizons are 1, 60, 3600 and 1, 21, 63, 126, 252 trading
\* days of 23400 seconds; each column is the return at its own horizon over
\* second_vol over the root of that horizon.
C9_HorizonsTradingDay ==
    NormComputedAt(<<1, 60, 3600, 23400, 21 * 23400, 63 * 23400,
                     126 * 23400, 252 * 23400>>)

\* A row with all eight normalised returns has been computed.
C9_Witness ==
    /\ fpc = "trend"
    /\ \E k \in 1..Len(frame) : \A n \in 1..8 : ~IsNa(frame[k].norm[n])

\* --------------------------------------------------------------- C10
\* C10: a frame given with a composite index ends with the timestamps as its
\* index, and date and the calendar fields of a row are those of the row's
\* own timestamp.
C10_CalendarOfOwnTimestamp ==
    (fpc \in {"dropna", "done"} /\ nlevels >= 2) =>
        \A k \in 1..Len(frame) :
            LET ts == input[frame[k].line].ts IN
            /\ frame[k].idx = <<ts>>
            /\ frame[k].date = Val(ts)
            /\ frame[k].cal = Calendar(ts)

====
